---- MODULE Spec2Model ----
(***************************************************************************)
(* Reverse-mode automatic differentiation over scalar Values (src/main.py).*)
(*                                                                         *)
(* Every Value ever constructed lives in an arena, a sequence of records;  *)
(* a Value's identity is its index.  Python numbers are modelled as exact  *)
(* rationals <<n, d>> in lowest terms (d > 0).  The inputs are small       *)
(* integers and integer exponents, so every number that occurs is a small  *)
(* dyadic rational and float arithmetic on it is exact; exp() and tanh()   *)
(* are called at data 0 only, where math.exp is rational.  The closure     *)
(* stored in Value._backward is the record bw: the operation that made the *)
(* node and the names the closure captured (self, other, power, t).        *)
(*                                                                         *)
(*   nodes     the arena                                                   *)
(*   last      the last call: its name, the exception it raised and what   *)
(*             it returned                                                 *)
(*   root      the Value graph or backward() was last called on            *)
(*   todo      the rest of the list the loop of backward() iterates        *)
(*   invoked   the Values whose rule the running backward() has invoked    *)
(*   readGrad  the gradient each of them held when its rule was invoked    *)
(*   pre       the gradients when backward() was called                    *)
(*   passes    the calls of backward() so far                              *)
(*   ref       a second run of the program, for EqSpec                     *)
(***************************************************************************)
EXTENDS Integers, Sequences, FiniteSets, TLC

VARIABLES nodes, last, root, todo, invoked, readGrad, pre, passes, ref

vars == <<nodes, last, root, todo, invoked, readGrad, pre, passes, ref>>

(* ------------------------------ bounds -------------------------------- *)

\* Values the arena may hold.
MaxNodes == 3
\* Calls of backward() in one behaviour.
MaxPasses == 2
\* Values of the graphs whose topological orders are checked.
GraphNodes == 5
\* The numbers a caller passes as leaf data and as raw scalar operands.
ScalarInputs == {0, 2}
\* The real exponents a caller passes to **.
PowerInputs == {-1, 0, 2}
\* The data a Value has when exp() or tanh() is called on it.
ExpInputs == {0}
\* The numbers the derived operators are compared on.
EqInputs == {-2, -1, 0, 1, 2}

(* ------------------------- Python numbers ----------------------------- *)

Abs(n) == IF n < 0 THEN -n ELSE n

RECURSIVE Gcd(_, _)
Gcd(a, b) == IF b = 0 THEN a ELSE Gcd(b, a % b)

\* The rational n/d in lowest terms with a positive denominator.
Norm(n, d) ==
    LET g == Gcd(Abs(n), Abs(d))
        s == IF d < 0 THEN -1 ELSE 1
    IN  <<(s * n) \div g, (s * d) \div g>>

R(n) == <<n, 1>>

RAdd(x, y) == Norm(x[1] * y[2] + y[1] * x[2], x[2] * y[2])

RMul(x, y) == Norm(x[1] * y[1], x[2] * y[2])

RECURSIVE IntPow(_, _)
IntPow(b, e) == IF e = 0 THEN 1 ELSE b * IntPow(b, e - 1)

\* x / y for y # 0.
RDiv(x, y) == Norm(x[1] * y[2], x[2] * y[1])

\* math.exp(x), for the one x where it is a rational: math.exp(0) is 1.0.
MathExp(x) == CASE x = R(0) -> R(1)

\* PyPow gone wrong: 0 raised to a negative power is taken to be 0 (no
\* exception).
PyPowNoRaise(x, p) ==
    IF p >= 0
    THEN [err |-> "none", val |-> Norm(IntPow(x[1], p), IntPow(x[2], p))]
    ELSE IF x[1] = 0
         THEN [err |-> "none", val |-> R(0)]
         ELSE [err |-> "none", val |-> Norm(IntPow(x[2], -p), IntPow(x[1], -p))]

\* x ** p for an integer p: 0 raised to a negative power raises
\* ZeroDivisionError, and 0 ** 0 is 1.
PyPow(x, p) ==
    IF p >= 0
    THEN [err |-> "none", val |-> Norm(IntPow(x[1], p), IntPow(x[2], p))]
    ELSE IF x[1] = 0
         THEN [err |-> "ZeroDivisionError", val |-> R(0)]
         ELSE [err |-> "none", val |-> Norm(IntPow(x[2], -p), IntPow(x[1], -p))]

(* ---------------------------- operands -------------------------------- *)

\* The second operand of an operator: a Value (by identity) or a number.
ValOp(i) == [isValue |-> TRUE, id |-> i, num |-> R(0)]
NumOp(x) == [isValue |-> FALSE, id |-> 0, num |-> x]

NoRule == [kind |-> "none", self |-> 0, other |-> 0, power |-> 0, t |-> R(0)]

(* -------------------------- Value.__init__ ---------------------------- *)

\* Value gone wrong: the gradient starts at 1.
ValueGradOne(ns, data, children) ==
    Append(ns, [data |-> data, grad |-> R(1), children |-> children, bw |-> NoRule])

\* Value(data, children): appended with grad 0.0 and the no-op rule;
\* children is a set, so an operand given twice is held once.
Value(ns, data, children) ==
    Append(ns, [data |-> data, grad |-> R(0), children |-> children, bw |-> NoRule])

\* out._backward = _backward
SetRule(ns, out, rule) == [ns EXCEPT ![out].bw = rule]

\* The result of a call: the arena after it, the Value returned (0 when the
\* call raised) and the exception raised.
Ok(ns, out) == [ns |-> ns, out |-> out, err |-> "none"]
Raise(ns, e) == [ns |-> ns, out |-> 0, err |-> e]

(* ---------------------------- operators ------------------------------- *)

\* other = other if isinstance(other, Value) else Value(other)
Promote(ns, other) ==
    IF other.isValue THEN Ok(ns, other.id)
    ELSE Ok(Value(ns, other.num, {}), Len(ns) + 1)

exp(ns, self) ==
    LET x == ns[self].data
        t == MathExp(x)
        ns1 == Value(ns, t, {self})
        out == Len(ns1)
    IN  Ok(SetRule(ns1, out, [NoRule EXCEPT !.kind = "exp", !.self = self, !.t = t]), out)

tanh(ns, self) ==
    LET x == ns[self].data
        t == RDiv(RAdd(MathExp(RMul(R(2), x)), R(-1)), RAdd(MathExp(RMul(R(2), x)), R(1)))
        ns1 == Value(ns, t, {self})
        out == Len(ns1)
    IN  Ok(SetRule(ns1, out, [NoRule EXCEPT !.kind = "tanh", !.self = self, !.t = t]), out)

__add__(ns, self, other) ==
    LET p == Promote(ns, other)
        o == p.out
        ns1 == Value(p.ns, RAdd(p.ns[self].data, p.ns[o].data), {self, o})
        out == Len(ns1)
    IN  Ok(SetRule(ns1, out, [NoRule EXCEPT !.kind = "add", !.self = self, !.other = o]), out)

__mul__(ns, self, other) ==
    LET p == Promote(ns, other)
        o == p.out
        ns1 == Value(p.ns, RMul(p.ns[self].data, p.ns[o].data), {self, o})
        out == Len(ns1)
    IN  Ok(SetRule(ns1, out, [NoRule EXCEPT !.kind = "mul", !.self = self, !.other = o]), out)

\* __pow__ gone wrong: no assert, a Value exponent is read as its data.
PowNoAssert(ns, self, power) ==
    LET e == IF power.isValue THEN ns[power.id].data[1] ELSE power.num[1]
        v == PyPow(ns[self].data, e)
    IN  IF v.err # "none" THEN Raise(ns, v.err)
        ELSE LET ns1 == Value(ns, v.val, {self})
                 out == Len(ns1)
             IN  Ok(SetRule(ns1, out,
                      [NoRule EXCEPT !.kind = "pow", !.self = self, !.power = e]), out)

\* power is an operand: a number passes the assert, a Value fails it.
__pow__(ns, self, power) ==
    IF power.isValue THEN Raise(ns, "AssertionError")
    ELSE LET e == power.num[1]
             v == PyPow(ns[self].data, e)
         IN  IF v.err # "none" THEN Raise(ns, v.err)
             ELSE LET ns1 == Value(ns, v.val, {self})
                      out == Len(ns1)
                  IN  Ok(SetRule(ns1, out,
                           [NoRule EXCEPT !.kind = "pow", !.self = self, !.power = e]), out)

\* __neg__ gone wrong: self * 1.
NegTimesOne(ns, self) == __mul__(ns, self, NumOp(R(1)))

__neg__(ns, self) == __mul__(ns, self, NumOp(R(-1)))

\* self + -other: -other is __neg__ for a Value and the negated number
\* otherwise.
__sub__(ns, self, other) ==
    IF other.isValue
    THEN LET n == __neg__(ns, other.id)
         IN  __add__(n.ns, self, ValOp(n.out))
    ELSE __add__(ns, self, NumOp(RMul(other.num, R(-1))))

__rmul__(ns, self, other) == __mul__(ns, self, other)

\* self * (other ** -1): other ** -1 is __pow__ for a Value and the
\* number's own power otherwise.
__truediv__(ns, self, other) ==
    IF other.isValue
    THEN LET q == __pow__(ns, other.id, NumOp(R(-1)))
         IN  IF q.err # "none" THEN q
             ELSE __mul__(q.ns, self, ValOp(q.out))
    ELSE LET v == PyPow(other.num, -1)
         IN  IF v.err # "none" THEN Raise(ns, v.err)
             ELSE __mul__(ns, self, NumOp(v.val))

(* ------------------------------ graph --------------------------------- *)

\* _build_topo(v) run from the traversal state st = [topo, visited]: the
\* set of states it can end in, one for every order in which the for loops
\* can iterate the children sets.
RECURSIVE _build_topo(_, _, _)
RECURSIVE ForChildren(_, _, _)

\* _build_topo gone wrong: no test of visited.
BuildTopoNoVisited(ns, v, st) ==
    LET st1 == [st EXCEPT !.visited = @ \cup {v}]
    IN  {[s EXCEPT !.topo = Append(@, v)] :
            s \in ForChildren(ns, ns[v].children, {st1})}

_build_topo(ns, v, st) ==
    IF v \in st.visited THEN {st}
    ELSE LET st1 == [st EXCEPT !.visited = @ \cup {v}]
         IN  {[s EXCEPT !.topo = Append(@, v)] :
                 s \in ForChildren(ns, ns[v].children, {st1})}

\* for child in v.children: _build_topo(child), from any state of S, the
\* children of rest still to come.
ForChildren(ns, rest, S) ==
    IF rest = {} THEN S
    ELSE UNION {ForChildren(ns, rest \ {c},
                    UNION {_build_topo(ns, c, s) : s \in S}) : c \in rest}

\* graph gone wrong: the list of every Value there is.
GraphOfEverything(ns, self) == {[i \in 1 .. Len(ns) |-> i]}

\* The lists the graph property can return for self.
graph(ns, self) ==
    {s.topo : s \in _build_topo(ns, self, [topo |-> <<>>, visited |-> {}])}

(* ------------------------- backward rules ----------------------------- *)

\* += gone wrong: = .
AddGradOverwrite(ns, v, x) == [ns EXCEPT ![v].grad = x]

\* v.grad += x
AddGrad(ns, v, x) == [ns EXCEPT ![v].grad = RAdd(@, x)]

\* The rule of + gone wrong: one contribution for each child of out.
AddRulePerChild(ns, out) ==
    LET bw  == ns[out].bw
        ns1 == AddGrad(ns, bw.self, RMul(R(1), ns[out].grad))
    IN  IF bw.other = bw.self THEN Ok(ns1, out)
        ELSE Ok(AddGrad(ns1, bw.other, RMul(R(1), ns1[out].grad)), out)

\* The closures _backward of __add__, __mul__, __pow__, exp and tanh (the
\* default lambda: None is the OTHER case of _backward below).  Their
\* statements run in order, each reading the arena the one before it left.
AddRule(ns, out) ==
    LET bw  == ns[out].bw
        ns1 == AddGrad(ns, bw.self, RMul(R(1), ns[out].grad))
    IN  Ok(AddGrad(ns1, bw.other, RMul(R(1), ns1[out].grad)), out)

\* The rule of * gone wrong: other's contribution scaled by other.data.
MulRuleWrongOperand(ns, out) ==
    LET bw  == ns[out].bw
        ns1 == AddGrad(ns, bw.self, RMul(ns[bw.other].data, ns[out].grad))
    IN  Ok(AddGrad(ns1, bw.other, RMul(ns1[bw.other].data, ns1[out].grad)), out)

MulRule(ns, out) ==
    LET bw  == ns[out].bw
        ns1 == AddGrad(ns, bw.self, RMul(ns[bw.other].data, ns[out].grad))
    IN  Ok(AddGrad(ns1, bw.other, RMul(ns1[bw.self].data, ns1[out].grad)), out)

PowRule(ns, out) ==
    LET bw == ns[out].bw
        v  == PyPow(ns[bw.self].data, bw.power - 1)
    IN  IF v.err # "none" THEN Raise(ns, v.err)
        ELSE Ok(AddGrad(ns, bw.self,
                     RMul(RMul(R(bw.power), v.val), ns[out].grad)), out)

ExpRule(ns, out) ==
    LET bw == ns[out].bw
    IN  Ok(AddGrad(ns, bw.self, RMul(bw.t, ns[out].grad)), out)

TanhRule(ns, out) ==
    LET bw == ns[out].bw
    IN  Ok(AddGrad(ns, bw.self,
                RMul(RAdd(R(1), RMul(R(-1), PyPow(bw.t, 2).val)), ns[out].grad)), out)

\* val._backward()
_backward(ns, val) ==
    CASE ns[val].bw.kind = "add" -> AddRule(ns, val)
      [] ns[val].bw.kind = "exp" -> ExpRule(ns, val)
      [] ns[val].bw.kind = "tanh" -> TanhRule(ns, val)
      [] ns[val].bw.kind = "mul" -> MulRule(ns, val)
      [] ns[val].bw.kind = "pow" -> PowRule(ns, val)
      [] OTHER -> Ok(ns, val)

\* self.grad = 1
Seed(ns, self) == [ns EXCEPT ![self].grad = R(1)]

\* reversed() gone wrong: the list as it is.
NotReversed(s) == s

RECURSIVE Reverse(_)
Reverse(s) == IF s = <<>> THEN <<>> ELSE Append(Reverse(Tail(s)), Head(s))

\* for val in <order>: val._backward(), stopping at the first exception.
RECURSIVE RunRules(_, _)
RunRules(ns, order) ==
    IF order = <<>> THEN Ok(ns, 0)
    ELSE LET r == _backward(ns, Head(order))
         IN  IF r.err # "none" THEN r ELSE RunRules(r.ns, Tail(order))

\* backward() as one call, the graph property having returned topo.
backward(ns, self, topo) == RunRules(Seed(ns, self), Reverse(topo))

(* --------------------------- state machine ---------------------------- *)

Ids == 1 .. Len(nodes)

Scalars == {R(x) : x \in ScalarInputs}

\* What a caller can pass as the second operand of a binary operator.
Operands == {ValOp(i) : i \in Ids} \cup {NumOp(x) : x \in Scalars}

\* What a caller can pass as the exponent: a real number or a Value.
Exponents == {NumOp(R(p)) : p \in PowerInputs} \cup {ValOp(i) : i \in Ids}

Grads(ns) == [i \in 1 .. Len(ns) |-> ns[i].grad]

\* No call is running: the program is single-threaded, so a call starts
\* only when the previous one has returned or raised.
Idle == todo = <<>>

NoPass ==
    /\ root' = 0
    /\ todo' = <<>>
    /\ invoked' = <<>>
    /\ readGrad' = <<>>
    /\ pre' = <<>>

\* A call of op that returned or raised as res says: last holds the call's
\* name, the exception it raised and what it returned (a Value as <<id>>,
\* with id 0 when it raised; the list of the graph property).
Return(op, res) ==
    /\ Len(res.ns) <= MaxNodes
    /\ nodes' = res.ns
    /\ last' = [op |-> op, err |-> res.err, ret |-> <<res.out>>]
    /\ NoPass
    /\ UNCHANGED <<passes, ref>>

\* ref is used by EqSpec only.
NoRef == [ns |-> <<>>, out |-> 0, kind |-> "none", other |-> NumOp(R(0))]

Init ==
    /\ nodes = <<>>
    /\ last = [op |-> "none", err |-> "none", ret |-> <<>>]
    /\ root = 0
    /\ todo = <<>>
    /\ invoked = <<>>
    /\ readGrad = <<>>
    /\ pre = <<>>
    /\ passes = 0
    /\ ref = NoRef

\* Value(x)
NewValue ==
    /\ Idle
    /\ \E x \in Scalars :
         Return("Value", Ok(Value(nodes, x, {}), Len(nodes) + 1))

Exp ==
    /\ Idle
    /\ \E self \in Ids :
         /\ nodes[self].data \in {R(x) : x \in ExpInputs}
         /\ Return("exp", exp(nodes, self))

Tanh ==
    /\ Idle
    /\ \E self \in Ids :
         /\ nodes[self].data \in {R(x) : x \in ExpInputs}
         /\ Return("tanh", tanh(nodes, self))

Add ==
    /\ Idle
    /\ \E self \in Ids, other \in Operands :
         Return("add", __add__(nodes, self, other))

Mul ==
    /\ Idle
    /\ \E self \in Ids, other \in Operands :
         Return("mul", __mul__(nodes, self, other))

Pow ==
    /\ Idle
    /\ \E self \in Ids, power \in Exponents :
         Return("pow", __pow__(nodes, self, power))

Neg ==
    /\ Idle
    /\ \E self \in Ids :
         Return("neg", __neg__(nodes, self))

Sub ==
    /\ Idle
    /\ \E self \in Ids, other \in Operands :
         Return("sub", __sub__(nodes, self, other))

\* other * self with other a number
RMulCall ==
    /\ Idle
    /\ \E self \in Ids, x \in Scalars :
         Return("rmul", __rmul__(nodes, self, NumOp(x)))

TrueDiv ==
    /\ Idle
    /\ \E self \in Ids, other \in Operands :
         Return("truediv", __truediv__(nodes, self, other))

\* self.graph
Graph ==
    /\ Idle
    /\ \E self \in Ids : \E topo \in graph(nodes, self) :
         /\ last' = [op |-> "graph", err |-> "none", ret |-> topo]
         /\ root' = self
    /\ todo' = <<>>
    /\ invoked' = <<>>
    /\ readGrad' = <<>>
    /\ pre' = <<>>
    /\ UNCHANGED <<nodes, passes, ref>>

\* self.backward() up to the loop: the seed and the order of the loop.
BackwardStart ==
    /\ Idle
    /\ passes < MaxPasses
    /\ \E self \in Ids : \E topo \in graph(nodes, self) :
         /\ nodes' = Seed(nodes, self)
         /\ todo' = Reverse(topo)
         /\ root' = self
         /\ pre' = Grads(nodes)
         /\ last' = [op |-> "backward", err |-> "none", ret |-> <<>>]
    /\ invoked' = <<>>
    /\ readGrad' = <<>>
    /\ passes' = passes + 1
    /\ UNCHANGED ref

\* One iteration of the loop of backward(): val._backward().  An exception
\* ends the call.
BackwardStep ==
    /\ todo # <<>>
    /\ LET val == Head(todo)
           r   == _backward(nodes, val)
       IN  /\ nodes' = r.ns
           /\ invoked' = Append(invoked, val)
           /\ readGrad' = Append(readGrad, nodes[val].grad)
           /\ todo' = IF r.err = "none" THEN Tail(todo) ELSE <<>>
           /\ last' = [last EXCEPT !.err = r.err]
    /\ UNCHANGED <<root, pre, passes, ref>>

Next ==
    \/ NewValue
    \/ Exp
    \/ Tanh
    \/ Add
    \/ Mul
    \/ Pow
    \/ Neg
    \/ Sub
    \/ RMulCall
    \/ TrueDiv
    \/ Graph
    \/ BackwardStart
    \/ BackwardStep

Spec == Init /\ [][Next]_vars

(* ------------------- the chain rule, stated directly ------------------ *)

\* The Values reachable from r through children.
RECURSIVE Reach(_, _)
Reach(ns, r) == {r} \cup UNION {Reach(ns, c) : c \in ns[r].children}

Leaves(ns) == {i \in 1 .. Len(ns) : ns[i].children = {}}

\* The edges into n: <<c, slot>> for every operand slot of a node c that
\* holds n, so an operand used twice by one operation is two edges.
EdgesInto(ns, n) ==
    {e \in (1 .. Len(ns)) \X {"self", "other"} :
        /\ ns[e[1]].bw.kind # "none"
        /\ ns[e[1]].bw[e[2]] = n}

\* The local derivative of the operation of node e[1] in operand e[2].
EdgeDeriv(ns, e) ==
    LET bw == ns[e[1]].bw
    IN  CASE bw.kind = "add" -> R(1)
          [] bw.kind = "mul" ->
                IF e[2] = "self" THEN ns[bw.other].data ELSE ns[bw.self].data
          [] bw.kind = "pow" ->
                RMul(R(bw.power), PyPow(ns[bw.self].data, bw.power - 1).val)
          [] bw.kind = "exp" -> ns[e[1]].data
          [] bw.kind = "tanh" ->
                RAdd(R(1), RMul(R(-1), RMul(ns[e[1]].data, ns[e[1]].data)))

\* The sum of f over S.
RECURSIVE SumF(_, _)
SumF(f, S) ==
    IF S = {} THEN R(0)
    ELSE LET x == CHOOSE y \in S : TRUE
         IN  RAdd(f[x], SumF(f, S \ {x}))

\* The local derivative of node c in n, over all the slots that hold n.
LocalDeriv(ns, c, n) ==
    LET E == {e \in EdgesInto(ns, n) : e[1] = c}
    IN  SumF([e \in E |-> EdgeDeriv(ns, e)], E)

\* The directed paths from n to r, each a sequence of edges.
RECURSIVE Paths(_, _, _)
Paths(ns, n, r) ==
    IF n = r THEN {<<>>}
    ELSE UNION {{<<e>> \o p : p \in Paths(ns, e[1], r)} : e \in EdgesInto(ns, n)}

RECURSIVE PathProduct(_, _)
PathProduct(ns, p) ==
    IF p = <<>> THEN R(1)
    ELSE RMul(EdgeDeriv(ns, Head(p)), PathProduct(ns, Tail(p)))

PathSum(ns, n, r) ==
    LET P == Paths(ns, n, r)
    IN  SumF([p \in P |-> PathProduct(ns, p)], P)

Consumers(ns, n) == {c \in 1 .. Len(ns) : n \in ns[c].children}

\* backward() is running or was the last call.
InPass == last.op = "backward"

\* backward() has returned without an exception.
PassDone == InPass /\ todo = <<>> /\ last.err = "none"

Range(s) == {s[i] : i \in 1 .. Len(s)}

TypeOK ==
    /\ Len(nodes) <= MaxNodes
    /\ passes \in 0 .. MaxPasses
    /\ \A i \in Ids : nodes[i].children \subseteq 1 .. (i - 1)
    /\ last.err \in {"none", "AssertionError", "ZeroDivisionError"}

(* ------------------------------ claims -------------------------------- *)

\* C1 as stated: after a completed backward pass over a graph whose leaf
\* nodes all had gradient 0, every reachable node's gradient is the sum over
\* the paths to the root of the products of the local derivatives.
C1_LeavesFresh ==
    (PassDone /\ \A n \in Reach(nodes, root) \cap Leaves(nodes) : pre[n] = R(0))
        => \A n \in Reach(nodes, root) : nodes[n].grad = PathSum(nodes, n, root)

\* C1 amended: the same when every node reachable from the root other than
\* the root itself, leaf or not, had gradient 0 when backward() started; the
\* root's gradient is 1.
C1_ChainRule ==
    (PassDone /\ \A n \in Reach(nodes, root) \ {root} : pre[n] = R(0))
        => /\ nodes[root].grad = R(1)
           /\ \A n \in Reach(nodes, root) :
                  nodes[n].grad = PathSum(nodes, n, root)

\* A completed pass from fresh gradients over a node with a rule of its own
\* that reaches the root along more than one path.
C1_Witness ==
    /\ PassDone
    /\ \A n \in Reach(nodes, root) \ {root} : pre[n] = R(0)
    /\ \E n \in Reach(nodes, root) :
          /\ Cardinality(Paths(nodes, n, root)) >= 3
          /\ nodes[n].grad \notin {R(0), R(1)}

\* C3: while backward() runs and after it, every node whose rule has been
\* invoked was invoked after all of its consumers in the root's subgraph,
\* its gradient still is the one its rule read, no rule has been invoked
\* twice, and a completed pass has invoked the rule of every reachable node.
C3_ConsumersFirst ==
    InPass =>
        /\ \A i \in 1 .. Len(invoked) :
              /\ \A c \in Consumers(nodes, invoked[i]) \cap Reach(nodes, root) :
                    \E j \in 1 .. (i - 1) : invoked[j] = c
              /\ nodes[invoked[i]].grad = readGrad[i]
              /\ \A j \in 1 .. Len(invoked) : invoked[j] = invoked[i] => j = i
        /\ PassDone => Range(invoked) = Reach(nodes, root)

\* A completed pass in which a node with two consumers of different depth
\* had its rule invoked after both.
C3_Witness ==
    /\ PassDone
    /\ \E n \in Range(invoked) :
          \E c, d \in Consumers(nodes, n) \cap Reach(nodes, root) :
              c # d /\ c \in Consumers(nodes, d)

\* C4: a completed pass leaves the root's gradient 1 and every other
\* reachable node's gradient at its value before the pass plus, for each
\* reachable consumer, the consumer's local derivative times the gradient
\* the consumer's rule read.
C4_Accumulates ==
    PassDone =>
        /\ nodes[root].grad = R(1)
        /\ \A n \in Reach(nodes, root) \ {root} :
              LET C == Consumers(nodes, n) \cap Reach(nodes, root)
                  at == [c \in C |-> readGrad[CHOOSE i \in 1 .. Len(invoked) : invoked[i] = c]]
              IN  nodes[n].grad =
                      RAdd(pre[n], SumF([c \in C |-> RMul(LocalDeriv(nodes, c, n), at[c])], C))

\* The second of two passes from the same root b = a + a: the root, which
\* held 1, holds 1 again, and a holds the stale 2 plus 2 and not the single
\* pass's 2.
C4_Witness ==
    /\ PassDone
    /\ passes = 2
    /\ nodes[root].bw.kind = "add"
    /\ nodes[root].bw.self = nodes[root].bw.other
    /\ pre[root] = R(1)
    /\ pre[nodes[root].bw.self] = R(2)
    /\ nodes[nodes[root].bw.self].grad = R(4)
    /\ PathSum(nodes, nodes[root].bw.self, root) = R(2)

\* C7: after a completed pass from b = a + a (b = a * a) over a fresh a,
\* a's gradient is 2 (2 * a.data), and b holds a once as a child.
C7_BothOperands ==
    \A a \in Ids :
        (/\ PassDone
         /\ nodes[root].bw.self = a
         /\ nodes[root].bw.other = a
         /\ pre[a] = R(0))
        => /\ nodes[root].children = {a}
           /\ nodes[root].bw.kind = "add" => nodes[a].grad = R(2)
           /\ nodes[root].bw.kind = "mul" => nodes[a].grad = RMul(R(2), nodes[a].data)

\* A completed pass from b = a * a with a.data = 2: the gradient of a is 4.
C7_Witness ==
    /\ PassDone
    /\ nodes[root].bw.kind = "mul"
    /\ nodes[root].bw.self = nodes[root].bw.other
    /\ pre[nodes[root].bw.self] = R(0)
    /\ nodes[nodes[root].bw.self].data = R(2)
    /\ nodes[nodes[root].bw.self].grad = R(4)

\* C9: while backward() runs on root and after it, every node that is not
\* reachable from root keeps the gradient it had before the pass and its
\* rule is not invoked.
C9_OnlySubgraph ==
    InPass =>
        \A n \in Ids \ Reach(nodes, root) :
            /\ nodes[n].grad = pre[n]
            /\ n \notin Range(invoked)

\* A completed pass from a node with a consumer and an unrelated node that
\* both hold a gradient left by an earlier pass.
C9_Witness ==
    /\ PassDone
    /\ \E c \in Consumers(nodes, root) : nodes[c].grad # R(0)
    /\ \E u \in Ids \ Reach(nodes, root) :
          /\ u \notin Consumers(nodes, root)
          /\ root \notin Reach(nodes, u)

\* C10: no step changes the data, the children or the rule of an existing
\* node; a node is created with gradient 0; and a step that is not part of
\* backward() changes no gradient.
C10_FixedAtCreation ==
    [][/\ Len(nodes') >= Len(nodes)
       /\ \A i \in Ids :
             /\ nodes'[i].data = nodes[i].data
             /\ nodes'[i].children = nodes[i].children
             /\ nodes'[i].bw = nodes[i].bw
             /\ last'.op # "backward" => nodes'[i].grad = nodes[i].grad
       /\ \A i \in (Len(nodes) + 1) .. Len(nodes') : nodes'[i].grad = R(0)]_vars

\* An operator applied, and a list retrieved, over nodes that hold gradients
\* of an earlier pass.
C10_Witness ==
    /\ last.op \in {"add", "mul", "pow", "truediv", "exp", "tanh", "graph"}
    /\ last.err = "none"
    /\ passes > 0
    /\ \E i \in Ids : nodes[i].grad \notin {R(0), R(1)}
    /\ last.op # "graph" => nodes[Len(nodes)].grad = R(0)

\* C5: in every state a call of ** with any Value as the exponent raises
\* AssertionError at once and leaves the arena as it is; no step that raises
\* it is part of backward(), creates a node or changes one.
C5_PowRejectsValue ==
    [][/\ \A self \in Ids, i \in Ids :
             __pow__(nodes, self, ValOp(i)) = Raise(nodes, "AssertionError")
       /\ last'.err = "AssertionError" =>
             /\ last'.op = "pow"
             /\ last'.ret = <<0>>
             /\ nodes' = nodes]_vars

\* ** with a Value exponent has raised, over an arena holding a pow node.
C5_Witness ==
    /\ last.op = "pow"
    /\ last.err = "AssertionError"
    /\ \E i \in Ids : nodes[i].bw.kind = "pow"

\* C6 as stated: no call fails but one of **; a division, and backward()
\* after it, end without an exception.
C6_OnlyPowFails ==
    last.err # "none" => last.op = "pow"

\* C6 amended: 0 raised to a negative power raises ZeroDivisionError.  A
\* division by a Value or a number of value 0 raises it at the call and
\* leaves the arena as it is; the only exceptions are it and the
\* AssertionError of **; Value(), +, *, unary -, binary - and graph never
\* raise; ** raises it at the call for base 0 and a negative exponent; and
\* backward() raises it exactly in the rule of a pow node of base 0 and
\* exponent below 1.
C6_ZeroDivision ==
    /\ \A self \in Ids, other \in Operands :
          (IF other.isValue THEN nodes[other.id].data ELSE other.num) = R(0)
              => __truediv__(nodes, self, other) = Raise(nodes, "ZeroDivisionError")
    /\ last.err = "ZeroDivisionError" => last.op \in {"pow", "truediv", "backward"}
    /\ last.err = "AssertionError" => last.op = "pow"
    /\ (last.op \in {"pow", "truediv"} /\ last.err # "none") => last.ret = <<0>>
    /\ (InPass /\ last.err # "none") =>
          LET bw == nodes[invoked[Len(invoked)]].bw
          IN  bw.kind = "pow" /\ nodes[bw.self].data = R(0) /\ bw.power < 1
    /\ InPass =>
          \A i \in 1 .. Len(invoked) :
              LET bw == nodes[invoked[i]].bw
              IN  (bw.kind = "pow" /\ nodes[bw.self].data = R(0) /\ bw.power < 1)
                      => (i = Len(invoked) /\ last.err = "ZeroDivisionError")

\* A division by a Value of data 0 has raised ZeroDivisionError.
C6_Witness ==
    /\ last.op = "truediv"
    /\ last.err = "ZeroDivisionError"
    /\ last.ret = <<0>>
    /\ \E i \in Ids : nodes[i].data = R(0)

(* ------------------ graph over every shape of DAG --------------------- *)

\* The arenas of k Values built from data 0 by Value(), ** 2 and +: every
\* set of children a node can have (none, one, two) over every earlier
\* node, so every shape of DAG the operators can build.
RECURSIVE Dags(_)
Dags(k) ==
    IF k = 0 THEN {<<>>}
    ELSE UNION {
           {Value(ns, R(0), {})}
             \cup {__pow__(ns, a, NumOp(R(2))).ns : a \in 1 .. Len(ns)}
             \cup {__add__(ns, p[1], ValOp(p[2])).ns :
                     p \in {q \in (1 .. Len(ns)) \X (1 .. Len(ns)) : q[1] < q[2]}}
           : ns \in Dags(k - 1)}

InitGraph ==
    /\ nodes \in Dags(GraphNodes)
    /\ last = [op |-> "none", err |-> "none", ret |-> <<>>]
    /\ root = 0
    /\ todo = <<>>
    /\ invoked = <<>>
    /\ readGrad = <<>>
    /\ pre = <<>>
    /\ passes = 0
    /\ ref = NoRef

GraphSpec == InitGraph /\ [][Graph]_vars

\* C2: the list graph returned for root holds exactly the nodes reachable
\* from root, each once, every node after all of its children and root
\* last.  Graph returns every list some iteration order of the children
\* sets produces.
C2_TopologicalOrder ==
    last.op = "graph" =>
        LET t == last.ret
        IN  /\ Range(t) = Reach(nodes, root)
            /\ \A i, j \in 1 .. Len(t) : t[i] = t[j] => i = j
            /\ \A i \in 1 .. Len(t) :
                  \A c \in nodes[t[i]].children : \E j \in 1 .. (i - 1) : t[j] = c
            /\ t[Len(t)] = root

\* graph returned for the root of a diamond, one of several possible
\* lists: a node with a child of its own is shared by two consumers that
\* the root combines.
C2_Witness ==
    /\ last.op = "graph"
    /\ Cardinality(graph(nodes, root)) >= 2
    /\ \E n, c, d \in Reach(nodes, root) :
          /\ c # d
          /\ nodes[root].children = {c, d}
          /\ n \in nodes[c].children \cap nodes[d].children
          /\ nodes[n].children # {}

(* ----------------- the derived operators, expanded -------------------- *)

\* a + (b * -1) as a caller writes it: for a number b, b * -1 is a number.
SubExpanded(ns, self, other) ==
    IF other.isValue
    THEN LET n == __mul__(ns, other.id, NumOp(R(-1)))
         IN  __add__(n.ns, self, ValOp(n.out))
    ELSE __add__(ns, self, NumOp(RMul(other.num, R(-1))))

\* a * (b ** -1) as a caller writes it: for a number b, b ** -1 is a number.
DivExpanded(ns, self, other) ==
    LET q == IF other.isValue THEN __pow__(ns, other.id, NumOp(R(-1)))
             ELSE LET v == PyPow(other.num, -1)
                  IN  IF v.err = "none" THEN Ok(ns, 0) ELSE Raise(ns, v.err)
    IN  IF q.err # "none" THEN q
        ELSE IF other.isValue THEN __mul__(q.ns, self, ValOp(q.out))
        ELSE __mul__(ns, self, NumOp(PyPow(other.num, -1).val))

\* Two runs of the program from the same two fresh leaves: nodes takes the
\* derived operator, ref.ns the expanded expression.
InitEq ==
    /\ \E x \in EqInputs, y \in EqInputs :
          nodes = Value(Value(<<>>, R(x), {}), R(y), {})
    /\ ref = [NoRef EXCEPT !.ns = nodes]
    /\ last = [op |-> "none", err |-> "none", ret |-> <<>>]
    /\ root = 0
    /\ todo = <<>>
    /\ invoked = <<>>
    /\ readGrad = <<>>
    /\ pre = <<>>
    /\ passes = 0

EqOperands == {ValOp(1), ValOp(2)} \cup {NumOp(R(x)) : x \in EqInputs}

EqSub ==
    /\ last.op = "none"
    /\ \E self \in Ids, other \in EqOperands :
          LET d == __sub__(nodes, self, other)
              e == SubExpanded(ref.ns, self, other)
          IN  /\ nodes' = d.ns
              /\ last' = [op |-> "sub", err |-> d.err, ret |-> <<d.out>>]
              /\ root' = d.out
              /\ ref' = [ns |-> e.ns, out |-> e.out, kind |-> e.err, other |-> other]
    /\ UNCHANGED <<todo, invoked, readGrad, pre, passes>>

EqDiv ==
    /\ last.op = "none"
    /\ \E self \in Ids, other \in EqOperands :
          LET d == __truediv__(nodes, self, other)
              e == DivExpanded(ref.ns, self, other)
          IN  /\ nodes' = d.ns
              /\ last' = [op |-> "truediv", err |-> d.err, ret |-> <<d.out>>]
              /\ root' = d.out
              /\ ref' = [ns |-> e.ns, out |-> e.out, kind |-> e.err, other |-> other]
    /\ UNCHANGED <<todo, invoked, readGrad, pre, passes>>

\* backward() on the result of each run, each with a list of its own.
EqBackward ==
    /\ last.op \in {"sub", "truediv"}
    /\ last.err = "none"
    /\ ref.kind = "none"
    /\ passes = 0
    /\ \E t1 \in graph(nodes, root) : \E t2 \in graph(ref.ns, ref.out) :
          LET d == backward(nodes, root, t1)
              e == backward(ref.ns, ref.out, t2)
          IN  /\ nodes' = d.ns
              /\ last' = [last EXCEPT !.err = d.err]
              /\ ref' = [ref EXCEPT !.ns = e.ns, !.kind = e.err]
    /\ passes' = 1
    /\ UNCHANGED <<root, todo, invoked, readGrad, pre>>

NextEq ==
    \/ EqSub
    \/ EqDiv
    \/ EqBackward

EqSpec == InitEq /\ [][NextEq]_vars

\* C8: a - b and a / b raise exactly when the expanded expressions do, on
\* a division by 0; otherwise they return a node of the same data and,
\* after backward() from the result, leave the same gradients on a and b
\* (the nodes 1 and 2) and on the result.
C8_DerivedOperators ==
    last.op \in {"sub", "truediv"} =>
        /\ last.err = ref.kind
        /\ last.err # "none" =>
              /\ last.op = "truediv"
              /\ (IF ref.other.isValue THEN nodes[ref.other.id].data
                                       ELSE ref.other.num) = R(0)
        /\ last.err = "none" =>
              /\ nodes[root].data = ref.ns[ref.out].data
              /\ \A i \in {1, 2, root} : nodes[i].grad = ref.ns[IF i = root THEN ref.out ELSE i].grad

\* backward() has run from a / b, a and b distinct fresh nodes, b not 1.
C8_Witness ==
    /\ last.op = "truediv"
    /\ last.err = "none"
    /\ passes = 1
    /\ ref.other = ValOp(2)
    /\ nodes[root].bw.self = 1
    /\ nodes[2].data \notin {R(1), R(-1)}
    /\ nodes[1].grad # R(0)
    /\ nodes[2].grad # R(0)

====
